---- MODULE Spec2Model ----
(***************************************************************************)
(* Existence-filter mismatch capture (firestore integration test helper).  *)
(*                                                                         *)
(* captureExistenceFilterMismatches(callback) registers a subscriber with  *)
(* the TestingHooks registry, awaits the callback ("the work"), and in a   *)
(* finally block invokes the unregister handle; it then returns the        *)
(* accumulated, translated records with the work's result, or re-raises    *)
(* the work's failure.                                                     *)
(*                                                                         *)
(* The TestingHooks registry itself (register / publish / unsubscribe) is  *)
(* not among the source files; it is modelled from the specification's     *)
(* section 4.1 (ordered subscriber list, one entry per registration,       *)
(* publish in registration order, idempotent unsubscribe).                 *)
(*                                                                         *)
(* JavaScript runs one job at a time, so each action below is one job (or  *)
(* one synchronous stretch of a job); `await` is the only suspension point *)
(* of the capture, and its continuation is a job of its own.               *)
(***************************************************************************)
EXTENDS Integers, Sequences, FiniteSets, TLC

\* ------------------------------------------------------------- bounds
NumCaptures == 2
NumExtCallbacks == 1
MaxExtRegs == 2
MaxPublishes == 2
MaxHandleCalls == 2
MaxFaultyRegs == 1

Captures == 1..NumCaptures
\* Callbacks are numbered: capture c's closure (source lines 35-39) is callback c,
\* the other observers' callbacks follow.
ExtCallbacks == (NumCaptures + 1)..(NumCaptures + NumExtCallbacks)
\* Callbacks of other observers that raise an error whenever they are invoked.
FaultyCallbacks == {NumCaptures + NumExtCallbacks + 1}
\* The publisher of a record that no capture's work published (the
\* synchronization engine, or an action a work left running detached).
Background == 0

\* What the work of capture c resolves with, and what it fails with: each
\* work has a result and a failure of its own.
WorkResult(c) == [value |-> c]
WorkError(c) == [error |-> c]
WorkOutcomes(c) == {[kind |-> "ok", val |-> WorkResult(c)],
                    [kind |-> "fail", val |-> WorkError(c)]}
DocPaths == {"col/doc1", "col/doc2"}

\* ------------------------------------------------------------- records
\* ExistenceFilterMismatchInfoInternal; an optional member is a field that the
\* record has or has not. The internal mightContain predicate is the set of keys
\* it answers true for. localCacheCount is the number of the publication, which
\* tells the records apart; odd publications carry no bloomFilter, even ones do.
InternalInfos(n) ==
    IF n % 2 = 1
    THEN { [localCacheCount |-> n, existenceFilterCount |-> n + 1,
            projectId |-> "p", databaseId |-> "d"] }
    ELSE { [localCacheCount |-> n, existenceFilterCount |-> n + 1,
            projectId |-> "p", databaseId |-> "d",
            bloomFilter |->
                [applied |-> TRUE, hashCount |-> 3, bitmapLength |-> 64, padding |-> 2,
                 mightContain |-> {"projects/p/databases/d/documents/col/doc1"}]] }

\* The records of every shape the translation can be handed: the two counts
\* differ, as do the descriptor's three numbers; the record names one of two
\* databases; the bloomFilter is absent, or present without the internal
\* predicate, or present with a predicate that answers true for no key, for
\* one key of this database, or for keys of both databases.
DatabaseIds == {[projectId |-> "p", databaseId |-> "d"],
                [projectId |-> "q", databaseId |-> "(default)"]}
InternalPredicates ==
    { {},
      {"projects/p/databases/d/documents/col/doc1",
       "projects/q/databases/(default)/documents/col/doc1"},
      {"projects/p/databases/d/documents/col/doc2",
       "projects/q/databases/(default)/documents/col/doc1"} }
InternalBloomFilters ==
    { [applied |-> a, hashCount |-> 3, bitmapLength |-> 64, padding |-> 2] :
        a \in BOOLEAN }
    \cup { [applied |-> TRUE, hashCount |-> 3, bitmapLength |-> 64, padding |-> 2,
            mightContain |-> m] : m \in InternalPredicates }
TranslationInputs ==
    { [localCacheCount |-> 5, existenceFilterCount |-> 7,
       projectId |-> db.projectId, databaseId |-> db.databaseId] :
        db \in DatabaseIds }
    \cup { [localCacheCount |-> 5, existenceFilterCount |-> 7,
            projectId |-> db.projectId, databaseId |-> db.databaseId,
            bloomFilter |-> b] : db \in DatabaseIds, b \in InternalBloomFilters }

\* Variant: the key leaves the database out.
DocumentKeyWithoutDatabase(internalInfo, path) ==
    "projects/" \o internalInfo.projectId \o "/documents/" \o path

\* The key the public predicate hands to the internal one (source lines 116-118).
DocumentKey(internalInfo, path) ==
    "projects/" \o internalInfo.projectId \o "/databases/" \o internalInfo.databaseId
        \o "/documents/" \o path

\* Variant: `?? true`.
PublicMightContainDefaultTrue(internalInfo, path) ==
    LET internalBloomFilter == internalInfo.bloomFilter IN
    IF "mightContain" \in DOMAIN internalBloomFilter
    THEN DocumentKey(internalInfo, path) \in internalBloomFilter.mightContain
    ELSE TRUE

\* internalBloomFilter.mightContain?.(key) ?? false
PublicMightContain(internalInfo, path) ==
    LET internalBloomFilter == internalInfo.bloomFilter IN
    IF "mightContain" \in DOMAIN internalBloomFilter
    THEN DocumentKey(internalInfo, path) \in internalBloomFilter.mightContain
    ELSE FALSE

\* Variant: the counts are copied crosswise and the descriptor is handed over
\* as it is, but for the predicate.
TranslateCrosswise(internalInfo) ==
    IF "bloomFilter" \in DOMAIN internalInfo
    THEN [localCacheCount |-> internalInfo.existenceFilterCount,
          existenceFilterCount |-> internalInfo.localCacheCount,
          bloomFilter |->
              [applied |-> internalInfo.bloomFilter.applied,
               hashCount |-> internalInfo.bloomFilter.bitmapLength,
               bitmapLength |-> internalInfo.bloomFilter.hashCount,
               padding |-> internalInfo.bloomFilter.padding,
               mightContain |->
                   [path \in DocPaths |-> PublicMightContain(internalInfo, path)]]]
    ELSE [localCacheCount |-> internalInfo.existenceFilterCount,
          existenceFilterCount |-> internalInfo.localCacheCount]

createExistenceFilterMismatchInfoFrom(internalInfo) ==
    IF "bloomFilter" \in DOMAIN internalInfo
    THEN [localCacheCount |-> internalInfo.localCacheCount,
          existenceFilterCount |-> internalInfo.existenceFilterCount,
          bloomFilter |->
              [applied |-> internalInfo.bloomFilter.applied,
               hashCount |-> internalInfo.bloomFilter.hashCount,
               bitmapLength |-> internalInfo.bloomFilter.bitmapLength,
               padding |-> internalInfo.bloomFilter.padding,
               mightContain |->
                   [path \in DocPaths |-> PublicMightContain(internalInfo, path)]]]
    ELSE [localCacheCount |-> internalInfo.localCacheCount,
          existenceFilterCount |-> internalInfo.existenceFilterCount]

\* ------------------------------------------------------------- state
VARIABLES
    subscribers,   \* registry: the ordered subscriber list, entries [id, cb]
    nextId,        \* registry: the id of the next entry (one per registration)
    issuedTo,      \* issuedTo[h]: the callback handle h was returned for
    handleCalls,   \* handleCalls[h]: how many times handle h has been invoked
    unsubError,    \* whether the last handle invocation raised
    pc,            \* per capture: idle, running, settled, returned, thrown
    results,       \* per capture: the `results` array
    unregister,    \* per capture: the handle held in `unregister` (0: none yet)
    unregCalls,    \* per capture: how many times it invoked `unregister`
    workOutcome,   \* per capture: how its work settled
    outcome,       \* per capture: what the caller of the capture observes
    startedDuring, \* per capture: the captures registered when it was invoked
    published      \* the publications so far, each with the moment it happened

vars == <<subscribers, nextId, issuedTo, handleCalls, unsubError, pc, results,
          unregister, unregCalls, workOutcome, outcome, startedDuring, published>>

NoOutcome == [kind |-> "none"]

Init ==
    /\ subscribers = <<>>
    /\ nextId = 1
    /\ issuedTo = <<>>
    /\ handleCalls = <<>>
    /\ unsubError = FALSE
    /\ pc = [c \in Captures |-> "idle"]
    /\ results = [c \in Captures |-> <<>>]
    /\ unregister = [c \in Captures |-> 0]
    /\ unregCalls = [c \in Captures |-> 0]
    /\ workOutcome = [c \in Captures |-> NoOutcome]
    /\ outcome = [c \in Captures |-> NoOutcome]
    /\ startedDuring = [c \in Captures |-> {}]
    /\ published = <<>>

\* ------------------------------------------------------------- registry
\* Variant: the newest subscriber is put first.
RegisterAtFront(subs, id, cb) == <<[id |-> id, cb |-> cb]>> \o subs

\* Variant: the subscribers are a set of callbacks; a callback that is
\* already registered is not added again.
RegisterOnce(subs, id, cb) ==
    IF \E i \in 1..Len(subs) : subs[i].cb = cb THEN subs
    ELSE Append(subs, [id |-> id, cb |-> cb])

\* TestingHooks.onExistenceFilterMismatch(callback): appends one entry.
Register(subs, id, cb) == Append(subs, [id |-> id, cb |-> cb])

\* Variant: the handle removes the first entry that holds its callback,
\* whichever registration added it.
RECURSIVE RemoveFirstCallback(_, _)
RemoveFirstCallback(subs, cb) ==
    IF subs = <<>> THEN <<>>
    ELSE IF Head(subs).cb = cb THEN Tail(subs)
    ELSE <<Head(subs)>> \o RemoveFirstCallback(Tail(subs), cb)

InvokeHandleByCallback(subs, id) ==
    [subs |-> RemoveFirstCallback(subs, issuedTo[id]), raised |-> FALSE]

\* The handle that registration `id` returned: removes that entry if it is
\* still there; raises nothing.
InvokeHandle(subs, id) ==
    [subs |-> SelectSeq(subs, LAMBDA e : e.id # id), raised |-> FALSE]

\* Variant: the subscriber inserts at the front of the array.
CallbackUnshift(res, c, info) ==
    [res EXCEPT ![c] = <<createExistenceFilterMismatchInfoFrom(info)>> \o @]

\* Variant: the subscriber keeps only the records that carry a bloomFilter.
CallbackOnlyWithBloomFilter(res, c, info) ==
    IF "bloomFilter" \in DOMAIN info
    THEN [res EXCEPT ![c] = Append(@, createExistenceFilterMismatchInfoFrom(info))]
    ELSE res

\* The capture's subscriber (source lines 35-39): results.push(translated info).
onExistenceFilterMismatchCallback(res, c, info) ==
    [res EXCEPT ![c] = Append(@, createExistenceFilterMismatchInfoFrom(info))]

\* Whether callback cb raises when it is invoked.
Throws(cb) == cb \in FaultyCallbacks

\* One callback invocation during a publish. acc = [results, calls, caught,
\* raised]: the captures' arrays, the invocations made so far in this publish,
\* the entries whose callback raised, and whether the publish itself raised.
InvokeCallback(entry, info, acc) ==
    [results |-> IF entry.cb \in Captures
                 THEN onExistenceFilterMismatchCallback(acc.results, entry.cb, info)
                 ELSE acc.results,
     calls |-> Append(acc.calls, [id |-> entry.id, cb |-> entry.cb, info |-> info]),
     caught |-> IF Throws(entry.cb) THEN Append(acc.caught, entry.id) ELSE acc.caught,
     raised |-> acc.raised]

\* Variant: an error raised by a callback ends the publish and reaches the
\* publisher.
RECURSIVE NotifyPropagating(_, _, _)
NotifyPropagating(subs, info, acc) ==
    IF subs = <<>> THEN acc
    ELSE IF Throws(Head(subs).cb)
         THEN [InvokeCallback(Head(subs), info, acc) EXCEPT !.raised = TRUE]
         ELSE NotifyPropagating(Tail(subs), info, InvokeCallback(Head(subs), info, acc))

\* publish(record): every registered callback, in list order; an error a
\* callback raises is caught (and logged), and the next callback is invoked.
RECURSIVE Notify(_, _, _)
Notify(subs, info, acc) ==
    IF subs = <<>> THEN acc
    ELSE Notify(Tail(subs), info, InvokeCallback(Head(subs), info, acc))

\* A publish in world w = [subs, results, log, caught, raised]; log collects
\* the invocations of each publish made in the step, caught and raised are
\* those of the last one.
PublishIn(w, info) ==
    LET d == Notify(w.subs, info, [results |-> w.results, calls |-> <<>>,
                                   caught |-> <<>>, raised |-> FALSE]) IN
    [subs |-> w.subs, results |-> d.results, log |-> Append(w.log, d.calls),
     caught |-> d.caught, raised |-> d.raised]

\* ------------------------------------------------------------- capture
\* The synchronous start of the work, up to its first suspension: it
\* publishes the records of `sync` (none or one).
CallWorkSync(w, sync) == IF sync = <<>> THEN w ELSE PublishIn(w, sync[1])

\* Variant: a capture registers only when the registry has no subscriber yet.
CaptureBeginSharedSubscriber(w, id, c, sync) ==
    CallWorkSync([w EXCEPT !.subs = IF w.subs = <<>> THEN Register(w.subs, id, c)
                                    ELSE w.subs,
                           !.results[c] = <<>>],
                 sync)

\* Variant: the callback is registered twice.
CaptureBeginRegistersTwice(w, id, c, sync) ==
    CallWorkSync([w EXCEPT !.subs = Register(Register(w.subs, id, c), id, c),
                           !.results[c] = <<>>],
                 sync)

\* Variant: callback() is called first, the registration follows.
CaptureBeginRegistersAfterCall(w, id, c, sync) ==
    LET started == CallWorkSync([w EXCEPT !.results[c] = <<>>], sync)
    IN [started EXCEPT !.subs = Register(started.subs, id, c)]

\* Source lines 34-48: a fresh results array, the registration, then callback().
CaptureBegin(w, id, c, sync) ==
    CallWorkSync([w EXCEPT !.subs = Register(w.subs, id, c), !.results[c] = <<>>],
                 sync)

\* Variant: the handle is invoked after the await only, not in a finally block.
FinallyOnSuccessOnly(subs, n, id, kind) ==
    IF kind = "ok" THEN [subs |-> InvokeHandle(subs, id).subs, calls |-> n + 1]
    ELSE [subs |-> subs, calls |-> n]

\* Variant: the handle is never invoked.
FinallyWithoutUnregister(subs, n, id, kind) == [subs |-> subs, calls |-> n]

\* Variant: the release drops the newest entry of the list.
FinallyRemovesLastEntry(subs, n, id, kind) ==
    [subs |-> SubSeq(subs, 1, Len(subs) - 1), calls |-> n + 1]

\* Source lines 49-51: finally { unregister(); }, on either exit of the try.
\* n counts this capture's invocations of its handle.
FinallyBlock(subs, n, id, kind) ==
    [subs |-> InvokeHandle(subs, id).subs, calls |-> n + 1]

\* Variant: the failure of the work is wrapped in a new error.
CaptureOutcomeWrapped(res, wo) ==
    IF wo.kind = "ok"
    THEN [kind |-> "ok", records |-> res, result |-> wo.val]
    ELSE [kind |-> "fail", error |-> [error |-> "capture failed", cause |-> wo.val]]

\* Variant: a capture that collected no record fails.
CaptureOutcomeFailsWhenEmpty(res, wo) ==
    IF wo.kind = "ok"
    THEN IF res = <<>> THEN [kind |-> "fail", error |-> [error |-> "nothing captured"]]
         ELSE [kind |-> "ok", records |-> res, result |-> wo.val]
    ELSE [kind |-> "fail", error |-> wo.val]

\* Variant: callbackResult is never assigned.
CaptureOutcomeNoResult(res, wo) ==
    IF wo.kind = "ok"
    THEN [kind |-> "ok", records |-> res, result |-> [value |-> 0]]
    ELSE [kind |-> "fail", error |-> wo.val]

\* Source lines 46-53: the value returned, or the failure of the work re-raised.
CaptureOutcome(res, wo) ==
    IF wo.kind = "ok"
    THEN [kind |-> "ok", records |-> res, result |-> wo.val]
    ELSE [kind |-> "fail", error |-> wo.val]

\* ------------------------------------------------------------- actions
World == [subs |-> subscribers, results |-> results, log |-> <<>>,
          caught |-> <<>>, raised |-> FALSE]

\* The handles that have been invoked at least once.
released == {h \in 1..Len(handleCalls) : handleCalls[h] >= 1}

Registered(p) == {c \in Captures : p[c] \in {"running", "settled"}}

\* What is recorded of a publication: the record, who published it, where
\* each capture stood, the callbacks invoked in world w, those that raised,
\* whether the publish raised, and the handles issued and invoked before it.
Publication(info, by, pcAt, w, issued) ==
    [info |-> info, by |-> by, pcAt |-> pcAt, calls |-> w.log[1],
     caught |-> w.caught, raised |-> w.raised,
     issued |-> issued, released |-> released]

CanPublish == Len(published) < MaxPublishes
NextInfos == InternalInfos(Len(published) + 1)

\* captureExistenceFilterMismatches(callback) is called: lines 34-48, to the
\* first suspension of the work, or to its synchronous throw (and then the
\* finally block and the rejection, in the same job).
\* Captures are interchangeable: they are invoked in the order of their numbers.
Invoke(c) ==
    /\ pc[c] = "idle"
    /\ \A b \in Captures : b < c => pc[b] # "idle"
    /\ \E sync \in {<<>>} \cup (IF CanPublish THEN {<<i>> : i \in NextInfos} ELSE {}),
          end \in {"suspend", "throw"} :
         LET id == nextId
             w == CaptureBegin(World, id, c, sync)
             wo == [kind |-> "fail", val |-> WorkError(c)]
             fin == FinallyBlock(w.subs, unregCalls[c], id, "fail")
         IN /\ nextId' = id + 1
            /\ issuedTo' = Append(issuedTo, c)
            /\ handleCalls' = Append(handleCalls, IF end = "suspend" THEN 0
                                                    ELSE fin.calls - unregCalls[c])
            /\ unregister' = [unregister EXCEPT ![c] = id]
            /\ startedDuring' = [startedDuring EXCEPT ![c] = Registered(pc)]
            /\ results' = w.results
            /\ published' =
                 IF sync = <<>> THEN published
                 ELSE Append(published,
                             Publication(sync[1], c, [pc EXCEPT ![c] = "running"],
                                         w, id))
            /\ IF end = "suspend"
               THEN /\ subscribers' = w.subs
                    /\ pc' = [pc EXCEPT ![c] = "running"]
                    /\ UNCHANGED <<unsubError, unregCalls, workOutcome, outcome>>
               ELSE /\ subscribers' = fin.subs
                    /\ unregCalls' = [unregCalls EXCEPT ![c] = fin.calls]
                    /\ unsubError' = InvokeHandle(w.subs, id).raised
                    /\ workOutcome' = [workOutcome EXCEPT ![c] = wo]
                    /\ outcome' = [outcome EXCEPT ![c] = CaptureOutcome(w.results[c], wo)]
                    /\ pc' = [pc EXCEPT ![c] = "thrown"]

\* The running work of capture c (or a sub-operation it awaits) publishes.
WorkPublish(c) ==
    /\ pc[c] = "running"
    /\ CanPublish
    /\ \E info \in NextInfos :
         LET w == PublishIn(World, info) IN
         /\ results' = w.results
         /\ published' = Append(published,
                                Publication(info, c, pc, w, nextId - 1))
    /\ UNCHANGED <<subscribers, nextId, issuedTo, handleCalls, unsubError, pc,
                   unregister, unregCalls, workOutcome, outcome, startedDuring>>

\* The engine, or an action some work left running detached, publishes.
BackgroundPublish ==
    /\ CanPublish
    /\ \E info \in NextInfos :
         LET w == PublishIn(World, info) IN
         /\ results' = w.results
         /\ published' = Append(published,
                                Publication(info, Background, pc, w, nextId - 1))
    /\ UNCHANGED <<subscribers, nextId, issuedTo, handleCalls, unsubError, pc,
                   unregister, unregCalls, workOutcome, outcome, startedDuring>>

\* The engine publishes a record of any shape.
PublishRecord(info) ==
    /\ CanPublish
    /\ LET w == PublishIn(World, info) IN
       /\ results' = w.results
       /\ published' = Append(published,
                              Publication(info, Background, pc, w, nextId - 1))
    /\ UNCHANGED <<subscribers, nextId, issuedTo, handleCalls, unsubError, pc,
                   unregister, unregCalls, workOutcome, outcome, startedDuring>>

\* The promise callback() returned settles; the capture's continuation is
\* queued and has not run yet.
WorkSettle(c) ==
    /\ pc[c] = "running"
    /\ \E wo \in WorkOutcomes(c) :
         workOutcome' = [workOutcome EXCEPT ![c] = wo]
    /\ pc' = [pc EXCEPT ![c] = "settled"]
    /\ UNCHANGED <<subscribers, nextId, issuedTo, handleCalls, unsubError, results,
                   unregister, unregCalls, outcome, startedDuring, published>>

\* The continuation of `await callback()`: lines 49-53.
Finish(c) ==
    /\ pc[c] = "settled"
    /\ LET fin == FinallyBlock(subscribers, unregCalls[c], unregister[c],
                               workOutcome[c].kind)
       IN /\ subscribers' = fin.subs
          /\ unregCalls' = [unregCalls EXCEPT ![c] = fin.calls]
          /\ handleCalls' = [handleCalls EXCEPT
                                ![unregister[c]] = @ + fin.calls - unregCalls[c]]
    /\ unsubError' = InvokeHandle(subscribers, unregister[c]).raised
    /\ outcome' = [outcome EXCEPT ![c] = CaptureOutcome(results[c], workOutcome[c])]
    /\ pc' = [pc EXCEPT ![c] = IF workOutcome[c].kind = "ok" THEN "returned" ELSE "thrown"]
    /\ UNCHANGED <<nextId, issuedTo, results, unregister, workOutcome,
                   startedDuring, published>>

ExtHandles == {h \in 1..Len(issuedTo) : issuedTo[h] \in ExtCallbacks}

\* Another observer registers callback cb.
ExtRegister(cb) ==
    /\ Cardinality(ExtHandles) < MaxExtRegs
    /\ subscribers' = Register(subscribers, nextId, cb)
    /\ nextId' = nextId + 1
    /\ issuedTo' = Append(issuedTo, cb)
    /\ handleCalls' = Append(handleCalls, 0)
    /\ UNCHANGED <<unsubError, pc, results, unregister, unregCalls,
                   workOutcome, outcome, startedDuring, published>>

FaultyHandles == {h \in 1..Len(issuedTo) : issuedTo[h] \in FaultyCallbacks}

\* An observer registers a callback that raises whenever it is invoked.
FaultyRegister(cb) ==
    /\ Cardinality(FaultyHandles) < MaxFaultyRegs
    /\ subscribers' = Register(subscribers, nextId, cb)
    /\ nextId' = nextId + 1
    /\ issuedTo' = Append(issuedTo, cb)
    /\ handleCalls' = Append(handleCalls, 0)
    /\ UNCHANGED <<unsubError, pc, results, unregister, unregCalls,
                   workOutcome, outcome, startedDuring, published>>

\* Another observer invokes the handle h it holds, for the first time or again.
ExtUnsubscribe(h) ==
    /\ h \in ExtHandles
    /\ handleCalls[h] < MaxHandleCalls
    /\ subscribers' = InvokeHandle(subscribers, h).subs
    /\ unsubError' = InvokeHandle(subscribers, h).raised
    /\ handleCalls' = [handleCalls EXCEPT ![h] = @ + 1]
    /\ UNCHANGED <<nextId, issuedTo, pc, results, unregister, unregCalls,
                   workOutcome, outcome, startedDuring, published>>

\* The observer whose callback raises invokes the handle h it holds, once.
FaultyUnsubscribe(h) ==
    /\ h \in FaultyHandles
    /\ handleCalls[h] = 0
    /\ subscribers' = InvokeHandle(subscribers, h).subs
    /\ unsubError' = InvokeHandle(subscribers, h).raised
    /\ handleCalls' = [handleCalls EXCEPT ![h] = @ + 1]
    /\ UNCHANGED <<nextId, issuedTo, pc, results, unregister, unregCalls,
                   workOutcome, outcome, startedDuring, published>>

\* The captures, their works and the engine.
Next ==
    \/ \E c \in Captures : Invoke(c)
    \/ \E c \in Captures : WorkPublish(c)
    \/ BackgroundPublish
    \/ \E c \in Captures : WorkSettle(c)
    \/ \E c \in Captures : Finish(c)

Spec == Init /\ [][Next]_vars

\* The registry with observers other than captures, and the engine.
NextRegistry ==
    \/ \E cb \in ExtCallbacks : ExtRegister(cb)
    \/ \E h \in 1..MaxExtRegs : ExtUnsubscribe(h)
    \/ BackgroundPublish

SpecRegistry == Init /\ [][NextRegistry]_vars

\* The registry with observers whose callbacks raise among the others.
NextFaulty ==
    \/ \E cb \in ExtCallbacks : ExtRegister(cb)
    \/ \E cb \in FaultyCallbacks : FaultyRegister(cb)
    \/ \E h \in 1..(MaxExtRegs + MaxFaultyRegs) : FaultyUnsubscribe(h)
    \/ BackgroundPublish

SpecFaulty == Init /\ [][NextFaulty]_vars

\* The captures together with an observer that is not a capture, whose
\* callback raises, and that registers and unsubscribes while they run; the
\* records are the ones the works publish as they start.
NextMixed ==
    \/ \E c \in Captures : Invoke(c)
    \/ \E c \in Captures : WorkSettle(c)
    \/ \E c \in Captures : Finish(c)
    \/ \E cb \in FaultyCallbacks : FaultyRegister(cb)
    \/ \E h \in 1..(NumCaptures + MaxFaultyRegs) : FaultyUnsubscribe(h)

SpecMixed == Init /\ [][NextMixed]_vars

\* The captures while the engine publishes records of every shape.
NextTranslation ==
    \/ \E c \in Captures : Invoke(c)
    \/ \E info \in TranslationInputs : PublishRecord(info)

SpecTranslation == Init /\ [][NextTranslation]_vars

\* The captures alone: their works publish as they start, settle, and the
\* captures resume.
NextSettling ==
    \/ \E c \in Captures : Invoke(c)
    \/ \E c \in Captures : WorkSettle(c)
    \/ \E c \in Captures : Finish(c)

\* The job queue runs every queued continuation: a capture whose work has
\* settled resumes.
FairSpec == Init /\ [][NextSettling]_vars /\ \A c \in Captures : WF_vars(Finish(c))

\* ------------------------------------------------------------- properties
Range(s) == {s[i] : i \in 1..Len(s)}
Translated(e) == createExistenceFilterMismatchInfoFrom(e.info)
IsSubscribed(id) == \E i \in 1..Len(subscribers) : subscribers[i].id = id
HasSubscriber(cb) == \E i \in 1..Len(subscribers) : subscribers[i].cb = cb
Observed(c) == pc[c] \in {"returned", "thrown"}
\* The publications made while capture c was between its registration and
\* its release, in publish order.
PublishedWhileRegistered(c) ==
    SelectSeq(published, LAMBDA e : c \in Registered(e.pcAt))
TranslatedSeq(s) == [i \in 1..Len(s) |-> Translated(s[i])]

\* C1: on every exit path of the work, when the caller observes the capture's
\* outcome (value or failure) the capture has invoked its unsubscribe handle
\* exactly once and its subscriber is no longer registered.
C1_ReleasedOnEveryExit ==
    \A c \in Captures :
        /\ unregCalls[c] <= 1
        /\ Observed(c) =>
              /\ unregCalls[c] = 1
              /\ handleCalls[unregister[c]] = 1
              /\ ~IsSubscribed(unregister[c])
              /\ ~HasSubscriber(c)

C1_Witness ==
    \E c, d \in Captures :
        /\ pc[c] = "thrown" /\ workOutcome[c].kind = "fail"
        /\ pc[d] = "returned"
        /\ published # <<>>

\* C2: when the work succeeds the capture returns (records, result): result
\* is the work's own result, and records is exactly the translated records
\* of the publications made while its subscription was registered, one
\* each, in publish order.
C2_ReturnsRecordsAndResult ==
    \A c \in Captures :
        (Observed(c) /\ workOutcome[c].kind = "ok") =>
            /\ pc[c] = "returned"
            /\ outcome[c].kind = "ok"
            /\ outcome[c].result = WorkResult(c)
            /\ outcome[c].records = TranslatedSeq(PublishedWhileRegistered(c))

C2_Witness ==
    \E c \in Captures :
        /\ pc[c] = "returned"
        /\ Len(outcome[c].records) = 2
        /\ \E i \in 1..Len(published) : published[i].by = c
        /\ \E i \in 1..Len(published) : published[i].by # c

\* C3: when the work fails, the capture has released its subscription when
\* it fails, it fails with the very failure value the work raised, and no
\* records are delivered to the caller.
C3_RethrowsSameFailure ==
    \A c \in Captures :
        (Observed(c) /\ workOutcome[c].kind = "fail") =>
            /\ pc[c] = "thrown"
            /\ outcome[c] = [kind |-> "fail", error |-> WorkError(c)]
            /\ "records" \notin DOMAIN outcome[c]
            /\ ~IsSubscribed(unregister[c])

C3_Witness ==
    \E c \in Captures :
        /\ pc[c] = "thrown"
        /\ results[c] # <<>>
        /\ outcome[c].error = workOutcome[c].val

\* Captures a and b were in flight at the same time.
Concurrent(a, b) == a \in startedDuring[b] \/ b \in startedDuring[a]
\* Exactly one record was published, and the work of capture a published it.
OnlyPublishIsBy(a) == Len(published) = 1 /\ published[1].by = a

\* C4 as claimed: for two concurrent captures A and B of which only A's work
\* publishes, exactly once, A returns one record and B returns none.
C4_IsolatedAsClaimed ==
    \A a, b \in Captures :
        (OnlyPublishIsBy(a) /\ a # b /\ pc[a] = "returned" /\ pc[b] = "returned"
              /\ Concurrent(a, b)) =>
            /\ Len(outcome[a].records) = 1
            /\ Len(outcome[b].records) = 0

\* C4, amended: for two concurrent captures A and B of which only A's work
\* publishes, exactly once, A returns one record; B returns none if its
\* subscription was not registered when the record was published, and that
\* one record if it was.
C4_IsolatedUnlessRegistered ==
    \A a, b \in Captures :
        (OnlyPublishIsBy(a) /\ a # b /\ pc[a] = "returned" /\ pc[b] = "returned"
              /\ Concurrent(a, b)) =>
            /\ outcome[a].records = <<Translated(published[1])>>
            /\ outcome[b].records =
                 IF b \in Registered(published[1].pcAt)
                 THEN <<Translated(published[1])>> ELSE <<>>

C4_Witness ==
    \E a, b \in Captures :
        /\ a # b /\ Concurrent(a, b) /\ OnlyPublishIsBy(a)
        /\ pc[a] = "returned" /\ pc[b] = "returned"
        /\ b \notin Registered(published[1].pcAt)
        /\ Len(outcome[a].records) = 1 /\ Len(outcome[b].records) = 0

\* C5: delivery is broadcast: a record published while two captures both
\* have their subscriptions registered is, translated, in the results array
\* of both, whichever capture's work published it.
C5_Broadcast ==
    \A i \in 1..Len(published) :
        LET live == Registered(published[i].pcAt)
            info == Translated(published[i])
        IN \A c, d \in live :
               c # d => (info \in Range(results[c]) /\ info \in Range(results[d]))

C5_Witness ==
    \E i \in 1..Len(published) :
        \E c, d \in Captures :
            /\ c # d /\ {c, d} \subseteq Registered(published[i].pcAt)
            /\ published[i].by = c
            /\ Translated(published[i]) \in Range(results[d])

\* C6 as claimed: a record published after the work has settled, or before
\* the capture was invoked, is never in the sequence the capture returns.
C6_WindowEndsAtSettle ==
    \A i \in 1..Len(published) :
        LET at == published[i].pcAt
            info == Translated(published[i])
        IN \A c \in Captures :
               (pc[c] = "returned"
                   /\ at[c] \in {"idle", "settled", "returned", "thrown"}) =>
                   info \notin Range(outcome[c].records)

\* C6, amended: the capture window ends when the capture releases its
\* subscription, in the continuation that runs after the work has settled:
\* a record published after the release, or before the capture was invoked,
\* is never in the sequence the capture returns (the results array, which
\* the caller holds), and a record published between the settling of the
\* work and the release is in it.
C6_WindowEndsAtRelease ==
    \A i \in 1..Len(published) :
        LET at == published[i].pcAt
            info == Translated(published[i])
        IN \A c \in Captures :
               pc[c] = "returned" =>
                   /\ at[c] \in {"idle", "returned", "thrown"} =>
                         /\ info \notin Range(outcome[c].records)
                         /\ info \notin Range(results[c])
                   /\ at[c] = "settled" => info \in Range(outcome[c].records)

C6_Witness ==
    \E c \in Captures :
        /\ pc[c] = "returned"
        /\ \E i, j \in 1..Len(published) :
              /\ published[i].pcAt[c] = "settled"
              /\ published[j].pcAt[c] = "returned"
              /\ Translated(published[i]) \in Range(outcome[c].records)
              /\ Translated(published[j]) \notin Range(outcome[c].records)

\* C7: if nothing is published while a capture's subscription is registered
\* and the work succeeds, the capture returns an empty sequence (present,
\* of length zero) and the work's result unchanged.
C7_EmptyCapture ==
    \A c \in Captures :
        (Observed(c) /\ workOutcome[c].kind = "ok"
              /\ PublishedWhileRegistered(c) = <<>>) =>
            /\ outcome[c].kind = "ok"
            /\ "records" \in DOMAIN outcome[c]
            /\ outcome[c].records = <<>>
            /\ outcome[c].result = workOutcome[c].val
            /\ outcome[c].result = WorkResult(c)

C7_Witness ==
    \E c \in Captures :
        /\ pc[c] = "returned"
        /\ PublishedWhileRegistered(c) = <<>>
        /\ published # <<>>
        /\ outcome[c].records = <<>>

\* C8: registrations s1..sn with no unregistration, then a publish: every
\* si is invoked exactly once with the published record, in registration
\* order.
C8_PublishInRegistrationOrder ==
    \A i \in 1..Len(published) :
        LET e == published[i] IN
        e.released = {} =>
            e.calls = [k \in 1..e.issued |->
                          [id |-> k, cb |-> issuedTo[k], info |-> e.info]]

C8_Witness ==
    \E i \in 1..Len(published) :
        /\ published[i].released = {}
        /\ Len(published[i].calls) >= 2
        /\ published[i].calls[1].id < published[i].calls[2].id

\* C9: invoking an unsubscribe handle that has been invoked before raises
\* no error and leaves the subscriber list as it is, also when the same
\* callback is still registered under another handle.
C9_SecondUnsubscribeIsNoOp ==
    [][\A h \in 1..Len(handleCalls) :
          (handleCalls[h] >= 1 /\ handleCalls'[h] = handleCalls[h] + 1) =>
              (subscribers' = subscribers /\ ~unsubError')]_vars

C9_Witness ==
    \E h, g \in 1..Len(handleCalls) :
        /\ h # g
        /\ handleCalls[h] >= 2
        /\ issuedTo[g] = issuedTo[h]
        /\ IsSubscribed(g)
        /\ ~IsSubscribed(h)

\* How many times a publication invoked callback cb.
Invocations(e, cb) == Len(SelectSeq(e.calls, LAMBDA k : k.cb = cb))
\* The handles for callback cb issued and not yet invoked when e was published.
ActiveHandles(e, cb) ==
    {h \in 1..e.issued : issuedTo[h] = cb /\ h \notin e.released}

\* C10: each registration of a callback is an entry of its own with a
\* handle of its own: a publish invokes the callback once per registration
\* whose handle has not been invoked (twice after two registrations, once
\* after one of the two handles has been invoked).
C10_IndependentEntries ==
    \A i \in 1..Len(published) :
        \A cb \in ExtCallbacks :
            Invocations(published[i], cb) =
                Cardinality(ActiveHandles(published[i], cb))

C10_Witness ==
    \E i, j \in 1..Len(published) :
        \E cb \in ExtCallbacks :
            /\ i < j
            /\ published[i].released = {}
            /\ Invocations(published[i], cb) = 2
            /\ Cardinality(published[j].released) = 1
            /\ Invocations(published[j], cb) = 1

\* C11: if a registered callback raises during a publish, every callback
\* registered after it (and not unsubscribed) is still invoked with the
\* record, and the publish raises nothing to its caller.
C11_FaultyCallbackIsolated ==
    \A i \in 1..Len(published) :
        LET e == published[i] IN
        /\ ~e.raised
        /\ \A k \in 1..Len(e.caught) :
              \A g \in (e.caught[k] + 1)..e.issued :
                  g \notin e.released =>
                      \E j \in 1..Len(e.calls) :
                          /\ e.calls[j].id = g
                          /\ e.calls[j].cb = issuedTo[g]
                          /\ e.calls[j].info = e.info

C11_Witness ==
    \E i \in 1..Len(published) :
        LET e == published[i] IN
        /\ e.caught # <<>>
        /\ \E j \in 1..Len(e.calls) :
              /\ e.calls[j].id > e.caught[1]
              /\ e.calls[j].cb \notin FaultyCallbacks

\* C15: the capture adds no failure of its own: it fails only when its work
\* failed, and then with the work's error; a capture whose work succeeded
\* returns, whatever was published and whichever captures or other
\* subscribers registered or unsubscribed meanwhile; no publish and no handle
\* raises into it.
C15_NoFailureOfItsOwn ==
    /\ unsubError = FALSE
    /\ \A i \in 1..Len(published) : ~published[i].raised
    /\ \A c \in Captures :
          /\ pc[c] = "thrown" =>
                /\ workOutcome[c].kind = "fail"
                /\ outcome[c] = [kind |-> "fail", error |-> workOutcome[c].val]
          /\ (Observed(c) /\ workOutcome[c].kind = "ok") =>
                /\ pc[c] = "returned"
                /\ outcome[c].kind = "ok"

C15_Witness ==
    \E c \in Captures :
        /\ pc[c] = "returned"
        /\ outcome[c].records # <<>>
        /\ \E h \in FaultyHandles : h > unregister[c] /\ handleCalls[h] = 1
        /\ \E i \in 1..Len(published) :
              /\ c \in Registered(published[i].pcAt) \ {published[i].by}
              /\ published[i].caught # <<>>

\* The internal record the k-th element of capture c's array was translated
\* from.
InternalOf(c, k) == PublishedWhileRegistered(c)[k].info
HasPredicate(internalInfo) ==
    /\ "bloomFilter" \in DOMAIN internalInfo
    /\ "mightContain" \in DOMAIN internalInfo.bloomFilter

\* C12: for an internal record whose bloomFilter has the internal predicate,
\* the public mightContain(ref) is the internal predicate's answer for
\* "projects/" + projectId + "/databases/" + databaseId + "/documents/" +
\* ref.path, for every document reference.
C12_MightContainDelegates ==
    \A c \in Captures : \A k \in 1..Len(results[c]) :
        LET i == InternalOf(c, k) IN
        HasPredicate(i) =>
            \A path \in DocPaths :
                results[c][k].bloomFilter.mightContain[path] =
                    (("projects/" \o i.projectId \o "/databases/" \o i.databaseId
                        \o "/documents/" \o path) \in i.bloomFilter.mightContain)

C12_Witness ==
    \E c \in Captures : \E k \in 1..Len(results[c]) :
        /\ HasPredicate(InternalOf(c, k))
        /\ InternalOf(c, k).databaseId = "(default)"
        /\ \E path \in DocPaths : results[c][k].bloomFilter.mightContain[path]
        /\ \E path \in DocPaths : ~results[c][k].bloomFilter.mightContain[path]

\* C13: for an internal record whose bloomFilter is present without the
\* internal predicate, the public record has a bloomFilter whose mightContain
\* is defined for every document reference and answers false.
C13_AbsentPredicateAnswersFalse ==
    \A c \in Captures : \A k \in 1..Len(results[c]) :
        LET i == InternalOf(c, k) IN
        ("bloomFilter" \in DOMAIN i /\ ~HasPredicate(i)) =>
            /\ "bloomFilter" \in DOMAIN results[c][k]
            /\ "mightContain" \in DOMAIN results[c][k].bloomFilter
            /\ DOMAIN results[c][k].bloomFilter.mightContain = DocPaths
            /\ \A path \in DocPaths :
                  results[c][k].bloomFilter.mightContain[path] = FALSE

C13_Witness ==
    \E c \in Captures : \E k \in 1..Len(results[c]) :
        /\ "bloomFilter" \in DOMAIN InternalOf(c, k)
        /\ ~HasPredicate(InternalOf(c, k))
        /\ InternalOf(c, k).bloomFilter.applied
        /\ "bloomFilter" \in DOMAIN results[c][k]

\* C14: the public record has the internal record's localCacheCount and
\* existenceFilterCount, has neither projectId nor databaseId, has a
\* bloomFilter exactly when the internal record has one, and then with the
\* internal applied, hashCount, bitmapLength and padding.
C14_TranslationCopies ==
    \A c \in Captures : \A k \in 1..Len(results[c]) :
        LET i == InternalOf(c, k)
            r == results[c][k] IN
        /\ r.localCacheCount = i.localCacheCount
        /\ r.existenceFilterCount = i.existenceFilterCount
        /\ DOMAIN r \subseteq {"localCacheCount", "existenceFilterCount", "bloomFilter"}
        /\ ("bloomFilter" \in DOMAIN r) = ("bloomFilter" \in DOMAIN i)
        /\ "bloomFilter" \in DOMAIN i =>
              /\ r.bloomFilter.applied = i.bloomFilter.applied
              /\ r.bloomFilter.hashCount = i.bloomFilter.hashCount
              /\ r.bloomFilter.bitmapLength = i.bloomFilter.bitmapLength
              /\ r.bloomFilter.padding = i.bloomFilter.padding
              /\ DOMAIN r.bloomFilter =
                    {"applied", "hashCount", "bitmapLength", "padding", "mightContain"}

C14_Witness ==
    \E c \in Captures :
        /\ \E k \in 1..Len(results[c]) :
              /\ "bloomFilter" \in DOMAIN InternalOf(c, k)
              /\ ~InternalOf(c, k).bloomFilter.applied
              /\ "bloomFilter" \in DOMAIN results[c][k]
        /\ \E k \in 1..Len(results[c]) :
              /\ "bloomFilter" \notin DOMAIN InternalOf(c, k)
              /\ "bloomFilter" \notin DOMAIN results[c][k]

\* The entries of the subscriber list that belong to captures.
CaptureEntries == {k \in 1..Len(subscribers) : subscribers[k].cb \in Captures}

\* C16: in every state the registry holds as many capture subscribers as there
\* are captures that have registered and not yet released, one entry for each
\* of them; once every capture has settled it holds none.
C16_OneSubscriptionPerCapture ==
    /\ Cardinality(CaptureEntries) = Cardinality(Registered(pc))
    /\ \A c \in Registered(pc) :
          Cardinality({k \in CaptureEntries : subscribers[k].cb = c}) = 1
    /\ (\A c \in Captures : Observed(c)) => CaptureEntries = {}

C16_Witness ==
    /\ \A c \in Captures : Observed(c)
    /\ CaptureEntries = {}
    /\ \E i \in 1..Len(published) : Registered(published[i].pcAt) = Captures

\* A step in which capture c invokes its handle.
Releases(c) == unregCalls'[c] = unregCalls[c] + 1
\* Capture d's entry in the list, as a set (empty when it has none).
EntryOf(subs, d) == {subs[k] : k \in {j \in 1..Len(subs) : subs[j].cb = d}}

\* C17: a step in which one capture releases its subscription leaves every
\* other capture's entry in the registry as it was and adds nothing to its
\* array but the record published in that step, if any; and every record
\* published while a capture is registered, also after another capture has
\* released, is in that capture's array.
C17_ReleaseLeavesOthers ==
    /\ [][\A c \in Captures : Releases(c) =>
              \A d \in Captures \ {c} :
                  /\ EntryOf(subscribers', d) = EntryOf(subscribers, d)
                  /\ \/ results'[d] = results[d]
                     \/ /\ Len(published') = Len(published) + 1
                        /\ d \in Registered(pc)
                        /\ results'[d] =
                              Append(results[d],
                                     Translated(published'[Len(published')]))]_vars
    /\ [](\A i \in 1..Len(published) :
              \A d \in Registered(published[i].pcAt) :
                  /\ \E j \in 1..Len(published[i].calls) :
                         published[i].calls[j].cb = d
                  /\ Translated(published[i]) \in Range(results[d]))

C17_Witness ==
    \E c, d \in Captures :
        /\ unregister[c] < unregister[d]
        /\ pc[d] = "running"
        /\ \E i \in 1..Len(published) :
              /\ published[i].pcAt[c] \in {"returned", "thrown"}
              /\ published[i].pcAt[d] = "running"
              /\ Translated(published[i]) \in Range(results[d])

\* C18: the capture is registered when its work starts: every record the work
\* publishes, the one it publishes before its first suspension included,
\* reaches the capture's own callback and is in the capture's array.
C18_RegisteredBeforeWorkStarts ==
    \A i \in 1..Len(published) :
        LET e == published[i] IN
        e.by \in Captures =>
            /\ unregister[e.by] <= e.issued
            /\ \E j \in 1..Len(e.calls) : e.calls[j].id = unregister[e.by]
            /\ Translated(e) \in Range(results[e.by])

C18_Witness ==
    \E c \in Captures :
        /\ pc[c] = "running"
        /\ \E i \in 1..Len(published) :
              /\ published[i].by = c
              /\ Translated(published[i]) \in Range(results[c])

\* C19: under fair scheduling, a capture whose work has settled eventually
\* settles itself, with its subscription released; and as long as its work
\* has not settled its subscriber is registered.
C19_SettlesAndReleases ==
    \A c \in Captures :
        /\ (pc[c] = "settled") ~> (Observed(c) /\ ~IsSubscribed(unregister[c]))
        /\ [](pc[c] = "running" => IsSubscribed(unregister[c]))

C19_Witness ==
    \E c \in Captures :
        /\ Observed(c)
        /\ ~IsSubscribed(unregister[c])
        /\ unregCalls[c] = 1
        /\ \E i \in 1..Len(published) : published[i].pcAt[c] = "settled"
====
